---------------------------- MODULE Spec2Model ----------------------------
(***************************************************************************)
(* Two command-line utilities of the plugin repository:                    *)
(*   - csharp-plugin/hooks/csharpier-format.py, the PostToolUse hook that  *)
(*     runs "dotnet csharpier" on an edited .cs file;                      *)
(*   - tools/create_plugin.py, the interactive plugin scaffolder.          *)
(*                                                                         *)
(* Text is a sequence of tokens (one-character strings or whole words), so *)
(* that strip(), lower(), endswith() and the substring tests of the code   *)
(* are computed and not assumed.                                           *)
(***************************************************************************)
EXTENDS Integers, Sequences, FiniteSets, TLC

VARIABLES
    \* ---- csharpier-format.py -------------------------------------------
    hpc,          \* position of main()
    stdin,        \* what json.load(sys.stdin) will find
    path_stat,    \* what Path(file_path).exists() will do
    dotnet,       \* whether shutil.which("dotnet") finds the CLI
    outcome,      \* what subprocess.run will do
    file_path,    \* local of main()
    gates,        \* the gates main() has evaluated so far, in order
    launched,     \* number of subprocess.run calls made
    result,       \* (success, message) returned by run_csharpier
    printed,      \* lines printed so far
    status,       \* exit status of the process, NoStatus while running
    \* ---- create_plugin.py ----------------------------------------------
    procs,        \* the scaffolder sessions that exist
    keyboard,     \* who is typing: "anyone" (any line within the bounds) or
                  \* "pair" (the two users of the concurrent scenario)
    pc,           \* position of each session in run()
    entered,      \* the last line read by input() in each session
    confirm,      \* the local confirm of run(): the last confirmation answer
    plugin_info,  \* the descriptor collected by get_user_input
    steps,        \* the steps of run() each session has performed, in order
    ret,          \* return value of run(), NoStatus while running
    template,     \* tools/plugin-template: existence and its plugin.json
    dirs,         \* the directories at the project root, each with the
                  \* state of its .claude-plugin/plugin.json
    marketplace,  \* .claude-plugin/marketplace.json
    loaded,       \* marketplace_data of each session
    registration, \* how register_to_marketplace ended in each session
    io,           \* the file operations each session has performed
    initial       \* the filesystem before any session started

hookVars == <<hpc, stdin, path_stat, dotnet, outcome, file_path, gates,
              launched, result, printed, status>>
toolVars == <<procs, keyboard, pc, entered, confirm, plugin_info, steps, ret, template,
              dirs, marketplace, loaded, registration, io, initial>>
vars == <<hookVars, toolVars>>

NoStatus == -1

-----------------------------------------------------------------------------
(* Text helpers: str.strip, str.lower, str.endswith, the "in" operator.     *)

Whitespace == {" ", "\t"}

RECURSIVE LStrip(_)
LStrip(s) == IF s # <<>> /\ Head(s) \in Whitespace THEN LStrip(Tail(s)) ELSE s

RECURSIVE RStrip(_)
RStrip(s) ==
    IF s # <<>> /\ s[Len(s)] \in Whitespace
    THEN RStrip(SubSeq(s, 1, Len(s) - 1))
    ELSE s

Strip(s) == RStrip(LStrip(s))

LowerTok(t) ==
    CASE t = "CSharpier" -> "csharpier"
      [] t = "Not" -> "not"
      [] t = "Installed" -> "installed"
      [] t = "Found" -> "found"
      [] t = "Y" -> "y"
      [] t = "N" -> "n"
      [] t = ".CS" -> ".cs"
      [] OTHER -> t

Lower(s) == [i \in 1..Len(s) |-> LowerTok(s[i])]

EndsWith(s, suf) ==
    /\ Len(suf) <= Len(s)
    /\ SubSeq(s, Len(s) - Len(suf) + 1, Len(s)) = suf

Contains(s, sub) ==
    \E i \in 0..(Len(s) - Len(sub)) : SubSeq(s, i + 1, i + Len(sub)) = sub

-----------------------------------------------------------------------------
(* csharpier-format.py: inputs and environment.                             *)

\* File paths that tool_input.file_path may carry.
Paths ==
    { <<>>,
      <<"a", ".cs">>,
      <<"a", ".txt">>,
      <<"a", ".CS">>,
      <<".cs", "a">>,
      <<"not", " ", "installed", "/", "a", ".cs">> }

\* What standard input may hold: bytes that do not decode, malformed or
\* empty text, well-formed JSON that is no object, or an object whose tool_input and file_path are each
\* absent, of another type, or of the expected type.
StdinShape(json, ti, fp, path) ==
    [json |-> json, tool_input |-> ti, file_path |-> fp, path |-> path]

StdinContents ==
    {StdinShape(j, "absent", "absent", <<>>) : j \in {"undecodable", "malformed", "empty", "list"}}
    \cup {StdinShape("object", t, "absent", <<>>) : t \in {"absent", "null", "string"}}
    \cup {StdinShape("object", "object", f, <<>>) : f \in {"absent", "null", "number"}}
    \cup {StdinShape("object", "object", "string", p) : p \in Paths}

\* Captured error and output text of the formatter.
StderrTexts ==
    { <<>>,
      <<" ">>,
      <<"error">>,
      <<" ", "error", " ">>,
      <<"not", " ", "found">>,
      <<"csharpier", " ", "failed">>,
      <<"CSharpier", " ", "command", " ", "Not", " ", "Found">>,
      <<"not", " ", "found", ":", " ", "csharpier">>,
      <<"tool", " ", "not", " ", "installed">>,
      <<"Not", " ", "Installed">> }

StdoutTexts == { <<>>, <<"out">> }

Outcome(kind, rc, err, out) ==
    [kind |-> kind, returncode |-> rc, stderr |-> err, stdout |-> out]

\* What subprocess.run may do: return with an exit code and captured text,
\* time out, fail to launch (FileNotFoundError), or raise anything else
\* (stderr then stands for the exception's text).
Outcomes ==
    {Outcome("returned", 0, e, <<>>) : e \in {<<>>, <<"not", " ", "installed">>}}
    \cup {Outcome("returned", 1, e, o) : e \in StderrTexts, o \in StdoutTexts}
    \cup {Outcome("timeout", NoStatus, <<>>, <<>>)}
    \cup {Outcome("launch_failure", NoStatus, <<>>, <<>>)}
    \cup {Outcome("other_exception", NoStatus, e, <<>>) :
              e \in {<<"boom">>, <<"not", " ", "installed">>}}

Str(text) == [type |-> "str", text |-> text]
NotStr(type) == [type |-> type, text |-> <<>>]

NoResult == [success |-> FALSE, message |-> <<>>]

Line(stream, text) == [stream |-> stream, text |-> text]

Prefix == "[CSharpier] "
Warning == "Warning: "
NotInstalled == <<"not", " ", "installed">>
InstallHint == ". Install with: dotnet tool install -g csharpier"

AdvisoryLine ==
    Line("stderr", <<Prefix, Warning, "CSharpier", " ", "not", " ", "installed",
                     InstallHint>>)
ProbeWarningLine ==
    Line("stderr", <<Prefix, Warning, "dotnet", " ", "CLI", " ", "not", " ",
                     "found", ". Skipping format.">>)
InvalidJsonLine == Line("stderr", <<Prefix, Warning, "Invalid JSON input">>)

-----------------------------------------------------------------------------
(* csharpier-format.py: the functions.                                      *)

\* A probe that never reports the CLI missing.
ProbeAlwaysAvailable == TRUE

check_csharpier_installed == dotnet

\* run_csharpier(file_path) for a given behaviour of subprocess.run.
run_csharpier(path, o) ==
    IF o.kind = "returned"
    THEN IF o.returncode = 0
         THEN [success |-> TRUE, message |-> <<"Formatted: ">> \o path]
         ELSE LET stderr == Strip(o.stderr) IN
              IF /\ Contains(Lower(stderr), <<"csharpier">>)
                 /\ Contains(Lower(stderr), <<"not", " ", "found">>)
              THEN [success |-> FALSE,
                    message |-> <<"CSharpier", " ", "not", " ", "installed">>]
              ELSE [success |-> FALSE,
                    message |-> <<"Format failed: ">>
                                \o (IF stderr # <<>> THEN stderr ELSE o.stdout)]
    ELSE IF o.kind = "timeout"
    THEN [success |-> FALSE, message |-> <<"Timeout formatting: ">> \o path]
    ELSE IF o.kind = "launch_failure"
    THEN [success |-> FALSE,
          message |-> <<"dotnet", " ", "CLI", " ", "not", " ", "found">>]
    ELSE [success |-> FALSE, message |-> <<"Error: ">> \o o.stderr]

\* Lines 74-77: json.load, then data.get("tool_input", {}).get("file_path", "").
\* raised names the exception the expression raises, "none" when it returns.
LoadFilePath(in) ==
    IF in.json = "undecodable"
    THEN [raised |-> "UnicodeDecodeError", value |-> NotStr("NoneType")]
    ELSE IF in.json \in {"malformed", "empty"}
    THEN [raised |-> "JSONDecodeError", value |-> NotStr("NoneType")]
    ELSE IF in.json # "object"
    THEN [raised |-> "AttributeError", value |-> NotStr("NoneType")]
    ELSE IF in.tool_input = "absent"
    THEN [raised |-> "none", value |-> Str(<<>>)]
    ELSE IF in.tool_input # "object"
    THEN [raised |-> "AttributeError", value |-> NotStr("NoneType")]
    ELSE IF in.file_path = "absent"
    THEN [raised |-> "none", value |-> Str(<<>>)]
    ELSE IF in.file_path = "null"
    THEN [raised |-> "none", value |-> NotStr("NoneType")]
    ELSE IF in.file_path = "number"
    THEN [raised |-> "none", value |-> NotStr("int")]
    ELSE [raised |-> "none", value |-> Str(in.path)]

\* The except clauses of main(): JSONDecodeError first, then Exception.
\* SystemExit (raised by sys.exit) is no Exception and leaves the try block.
IsException(exc) ==
    exc \in {"JSONDecodeError", "UnicodeDecodeError", "AttributeError", "OSError"}

\* The handlers without the trailing "except Exception".
ExceptClauseJsonOnly(exc) ==
    IF exc = "JSONDecodeError" THEN "json" ELSE "uncaught"

ExceptClause(exc) ==
    IF exc = "JSONDecodeError" THEN "json"
    ELSE IF IsException(exc) THEN "generic"
    ELSE "uncaught"

\* main() leaves with exception exc (code is the argument of sys.exit).
Leave(exc, code) ==
    LET clause == ExceptClause(exc) IN
    /\ hpc' = "done"
    /\ printed' =
          IF clause = "json" THEN Append(printed, InvalidJsonLine)
          ELSE IF clause = "generic"
          THEN Append(printed, Line("stderr", <<Prefix, Warning, exc>>))
          ELSE printed
    /\ status' = IF clause = "uncaught"
                 THEN (IF exc = "SystemExit" THEN code ELSE 1)
                 ELSE 0

\* The line main() prints for the result of run_csharpier (lines 95-101).
ReportLine(r) ==
    IF r.success
    THEN Line("stdout", <<Prefix>> \o r.message)
    ELSE IF Contains(Lower(r.message), NotInstalled)
    THEN AdvisoryLine
    ELSE Line("stderr", <<Prefix, Warning>> \o r.message)

-----------------------------------------------------------------------------
(* csharpier-format.py: main(), one action per gate.                        *)

HookInit ==
    /\ hpc = "start"
    /\ stdin \in StdinContents
    /\ path_stat \in {"exists", "missing", "error"}
    /\ dotnet \in BOOLEAN
    /\ outcome \in Outcomes
    /\ file_path = NotStr("NoneType")
    /\ gates = <<>>
    /\ launched = 0
    /\ result = NoResult
    /\ printed = <<>>
    /\ status = NoStatus

HookIdle ==
    /\ hpc = "done"
    /\ stdin = StdinShape("empty", "absent", "absent", <<>>)
    /\ path_stat = "missing"
    /\ dotnet = FALSE
    /\ outcome = Outcome("timeout", NoStatus, <<>>, <<>>)
    /\ file_path = NotStr("NoneType")
    /\ gates = <<>>
    /\ launched = 0
    /\ result = NoResult
    /\ printed = <<>>
    /\ status = NoStatus

\* Lines 72-77.
HookParse ==
    /\ hpc = "start"
    /\ LET r == LoadFilePath(stdin) IN
       IF r.raised = "none"
       THEN /\ file_path' = r.value
            /\ hpc' = "extension"
            /\ UNCHANGED <<printed, status>>
       ELSE /\ Leave(r.raised, 0)
            /\ UNCHANGED file_path
    /\ UNCHANGED <<stdin, path_stat, dotnet, outcome, gates, launched, result>>
    /\ UNCHANGED toolVars

\* Lines 79-81.
HookExtensionGate ==
    /\ hpc = "extension"
    /\ gates' = Append(gates, "extension")
    /\ IF file_path.type # "str"
       THEN Leave("AttributeError", 0)
       ELSE IF ~EndsWith(file_path.text, <<".cs">>)
       THEN Leave("SystemExit", 0)
       ELSE hpc' = "exists" /\ UNCHANGED <<printed, status>>
    /\ UNCHANGED <<stdin, path_stat, dotnet, outcome, file_path, launched, result>>
    /\ UNCHANGED toolVars

\* Lines 83-85.
HookExistsGate ==
    /\ hpc = "exists"
    /\ gates' = Append(gates, "exists")
    /\ IF path_stat = "error"
       THEN Leave("OSError", 0)
       ELSE IF path_stat = "missing"
       THEN Leave("SystemExit", 0)
       ELSE hpc' = "probe" /\ UNCHANGED <<printed, status>>
    /\ UNCHANGED <<stdin, path_stat, dotnet, outcome, file_path, launched, result>>
    /\ UNCHANGED toolVars

\* Lines 87-90.
HookProbeGate ==
    /\ hpc = "probe"
    /\ gates' = Append(gates, "probe")
    /\ IF ~check_csharpier_installed
       THEN /\ hpc' = "done"
            /\ printed' = Append(printed, ProbeWarningLine)
            /\ status' = 0
       ELSE hpc' = "run" /\ UNCHANGED <<printed, status>>
    /\ UNCHANGED <<stdin, path_stat, dotnet, outcome, file_path, launched, result>>
    /\ UNCHANGED toolVars

\* Line 93.
HookRun ==
    /\ hpc = "run"
    /\ launched' = launched + 1
    /\ result' = run_csharpier(file_path.text, outcome)
    /\ hpc' = "report"
    /\ UNCHANGED <<stdin, path_stat, dotnet, outcome, file_path, gates, printed,
                   status>>
    /\ UNCHANGED toolVars

\* Lines 95-104.
HookReport ==
    /\ hpc = "report"
    /\ hpc' = "done"
    /\ printed' = Append(printed, ReportLine(result))
    /\ status' = 0
    /\ UNCHANGED <<stdin, path_stat, dotnet, outcome, file_path, gates, launched,
                   result>>
    /\ UNCHANGED toolVars

HookNext ==
    \/ HookParse
    \/ HookExtensionGate
    \/ HookExistsGate
    \/ HookProbeGate
    \/ HookRun
    \/ HookReport

-----------------------------------------------------------------------------
(* create_plugin.py: bounds, inputs and the filesystem.                     *)

MaxName == 3    \* longest line typed at the name prompt
MaxText == 2    \* longest line typed at the description prompt

Sessions == {1, 2}

RECURSIVE SeqsUpTo(_, _)
SeqsUpTo(chars, n) ==
    IF n = 0 THEN {<<>>}
    ELSE LET shorter == SeqsUpTo(chars, n - 1) IN
         shorter \cup {Append(s, c) : s \in shorter, c \in chars}

NameLines == SeqsUpTo({"a", " ", "\t"}, MaxName)
DescriptionLines == SeqsUpTo({"d", " "}, MaxText)
AuthorLines == { <<>>, <<" ">>, <<"A">>, <<" ", "A", "\t">> }
VersionLines == { <<>>, <<" ">>, <<"2">>, <<"2", " ">> }
YesNoLines == { <<"y">>, <<"n">>, <<"N">>, <<" ", "y">>, <<"x">>, <<>> }

FullKeyboard ==
    [name |-> NameLines,
     description |-> DescriptionLines,
     author |-> AuthorLines,
     version |-> VersionLines,
     yesno |-> YesNoLines]

\* Two users who type valid lines only, and may pick the same name.
ConcKeyboard ==
    [name |-> {<<"a">>, <<"a", "a">>},
     description |-> {<<"d">>, <<"d", "d">>},
     author |-> {<<"A">>},
     version |-> {<<>>},
     yesno |-> {<<"y">>, <<"n">>}]

\* The lines input() may return at each prompt.
Typed == IF keyboard = "anyone" THEN FullKeyboard ELSE ConcKeyboard

DefaultVersion == <<"1.0.0">>

\* plugin.json: kind tells whether the file exists, parses, and has the
\* nested author object; the four fields are those run() rewrites.
Manifest(kind, name, description, version, author) ==
    [kind |-> kind, name |-> name, description |-> description,
     version |-> version, author |-> author]

BrokenManifest(kind) == Manifest(kind, <<>>, <<>>, <<>>, <<>>)

TemplateManifest(kind) ==
    IF kind \in {"ok", "no_author"}
    THEN Manifest(kind, <<"plugin-template">>, <<"template">>, <<"0.0.0">>,
                  IF kind = "ok" THEN <<"template">> ELSE <<>>)
    ELSE BrokenManifest(kind)

Entry(name, source, description) ==
    [name |-> name, source |-> source, description |-> description]

\* marketplace.json: whether it exists, parses, has a "plugins" key, and the
\* records of that list.
Registry(exists, valid, has_plugins, plugins) ==
    [exists |-> exists, valid |-> valid, has_plugins |-> has_plugins,
     plugins |-> plugins]

OldA == Entry(<<"a">>, <<"./", "a">>, <<"old">>)
OldAA == Entry(<<"a", "a">>, <<"./", "a", "a">>, <<"older">>)

InitialRegistries ==
    { Registry(FALSE, FALSE, FALSE, <<>>),
      Registry(TRUE, FALSE, FALSE, <<>>),
      Registry(TRUE, TRUE, FALSE, <<>>),
      Registry(TRUE, TRUE, TRUE, <<>>),
      Registry(TRUE, TRUE, TRUE, <<OldAA>>),
      Registry(TRUE, TRUE, TRUE, <<OldAA, OldA>>),
      Registry(TRUE, TRUE, TRUE, <<OldA, OldA>>) }

InitialTemplates ==
    {[exists |-> FALSE, manifest |-> BrokenManifest("missing")]}
    \cup {[exists |-> TRUE, manifest |-> TemplateManifest(k)] :
             k \in {"ok", "no_author", "malformed", "missing"}}

NoDirs == [n \in {} |-> BrokenManifest("missing")]

InitialDirs ==
    { NoDirs,
      [n \in {<<"a">>} |-> Manifest("ok", <<"a">>, <<"old">>, <<"0.1">>, <<"bob">>)] }

NoInfo == [name |-> <<>>, description |-> <<>>, author |-> <<>>, version |-> <<>>]
NoDoc == [has_plugins |-> FALSE, plugins |-> <<>>]
Unset == <<"(unset)">>

-----------------------------------------------------------------------------
(* create_plugin.py: the functions.                                         *)

Exists(name) == name \in DOMAIN dirs

\* validate_environment, lines 22-32.
validate_environment == template.exists /\ marketplace.exists

\* The name loop without its existing-directory check.
NameAcceptedUnchecked(name) ==
    /\ name # <<>>
    /\ ~Contains(name, <<" ">>)

\* The three checks of the name loop, lines 43-51, on the stripped line.
NameAccepted(name) ==
    /\ name # <<>>
    /\ ~Contains(name, <<" ">>)
    /\ ~Exists(name)

\* Lines 71-73.
VersionOf(line) == IF Strip(line) = <<>> THEN DefaultVersion ELSE Strip(line)

\* input(...).strip().lower() of the two yes/no loops.
Choice(line) == Lower(Strip(line))

\* Lines 109-112.
UpdatedManifest(m, info) ==
    [m EXCEPT !.name = info.name,
              !.description = info.description,
              !.version = info.version,
              !.author = info.author]

\* The duplicate test reading each record's source and not its name.
ExistingSources(doc) ==
    IF doc.has_plugins THEN {doc.plugins[i].source : i \in 1..Len(doc.plugins)} ELSE {}

\* Lines 144-145.
ExistingPlugins(doc) ==
    IF doc.has_plugins THEN {doc.plugins[i].name : i \in 1..Len(doc.plugins)} ELSE {}

\* The new record with the bare name as its source.
BareSourceEntry(info) == Entry(info.name, info.name, info.description)

\* Lines 150-154.
NewPluginEntry(info) == Entry(info.name, <<"./">> \o info.name, info.description)

\* Lines 156-159.
WithEntry(doc, e) ==
    [has_plugins |-> TRUE,
     plugins |-> Append(IF doc.has_plugins THEN doc.plugins ELSE <<>>, e)]

\* copytree called with dirs_exist_ok=True.
CopyNeverRaises(name) == FALSE

\* copytree creates the target with exist_ok=False (line 90): it raises
\* when the directory is already there.
CopyRaises(name) == Exists(name)

\* The control flow of run(), lines 186-228: where run() goes after a step
\* that succeeded or not, or the value it returns there. The confirmation
\* "succeeds" on 'y' and not on 'n'; the result of register_to_marketplace
\* is not looked at (line 223).
To(label) == [next |-> label, ret |-> NoStatus]
Returns(value) == [next |-> "done", ret |-> value]

\* run() returning 0 after a failed manifest update.
RunFlowUpdateReturnsZero(step, ok) ==
    CASE step = "validate" -> IF ok THEN To("name") ELSE Returns(1)
      [] step = "confirm" -> IF ok THEN To("copy") ELSE Returns(0)
      [] step = "copy" -> IF ok THEN To("update") ELSE Returns(1)
      [] step = "update" -> IF ok THEN To("register") ELSE Returns(0)
      [] step = "register" -> To("summary")
      [] step = "summary" -> Returns(0)

\* run() not looking at the confirmation answer.
RunFlowIgnoresCancel(step, ok) ==
    CASE step = "validate" -> IF ok THEN To("name") ELSE Returns(1)
      [] step = "confirm" -> To("copy")
      [] step = "copy" -> IF ok THEN To("update") ELSE Returns(1)
      [] step = "update" -> IF ok THEN To("register") ELSE Returns(1)
      [] step = "register" -> To("summary")
      [] step = "summary" -> Returns(0)

\* run() not looking at the result of update_plugin_json.
RunFlowIgnoresUpdate(step, ok) ==
    CASE step = "validate" -> IF ok THEN To("name") ELSE Returns(1)
      [] step = "confirm" -> IF ok THEN To("copy") ELSE Returns(0)
      [] step = "copy" -> IF ok THEN To("update") ELSE Returns(1)
      [] step = "update" -> To("register")
      [] step = "register" -> To("summary")
      [] step = "summary" -> Returns(0)

RunFlow(step, ok) ==
    CASE step = "validate" -> IF ok THEN To("name") ELSE Returns(1)
      [] step = "confirm" -> IF ok THEN To("copy") ELSE Returns(0)
      [] step = "copy" -> IF ok THEN To("update") ELSE Returns(1)
      [] step = "update" -> IF ok THEN To("register") ELSE Returns(1)
      [] step = "register" -> To("summary")
      [] step = "summary" -> Returns(0)

Proceed(p, step, ok) ==
    /\ pc' = [pc EXCEPT ![p] = RunFlow(step, ok).next]
    /\ ret' = [ret EXCEPT ![p] = RunFlow(step, ok).ret]

Goto(p, label) == pc' = [pc EXCEPT ![p] = label] /\ UNCHANGED ret

Did(p, step) == steps' = [steps EXCEPT ![p] = Append(@, step)]

Io(p, op) == io' = [io EXCEPT ![p] = @ \cup {op}]

-----------------------------------------------------------------------------
(* create_plugin.py: run(), one action per blocking call.                   *)

ToolStart(ps, kb) ==
    /\ procs = ps
    /\ keyboard = kb
    /\ pc = [p \in Sessions |-> IF p \in ps THEN "validate" ELSE "idle"]
    /\ entered = [p \in Sessions |-> <<>>]
    /\ confirm = [p \in Sessions |-> Unset]
    /\ plugin_info = [p \in Sessions |-> NoInfo]
    /\ steps = [p \in Sessions |-> <<>>]
    /\ ret = [p \in Sessions |-> NoStatus]
    /\ loaded = [p \in Sessions |-> NoDoc]
    /\ registration = [p \in Sessions |-> "none"]
    /\ io = [p \in Sessions |-> {}]
    /\ initial = [dirs |-> dirs, marketplace |-> marketplace]

ToolInit ==
    /\ template \in InitialTemplates
    /\ dirs \in InitialDirs
    /\ marketplace \in InitialRegistries
    /\ ToolStart({1}, "anyone")

ToolIdle ==
    /\ template = [exists |-> FALSE, manifest |-> BrokenManifest("missing")]
    /\ dirs = NoDirs
    /\ marketplace = Registry(FALSE, FALSE, FALSE, <<>>)
    /\ ToolStart({}, "anyone")

\* Lines 188-190.
Validate(p) ==
    /\ pc[p] = "validate"
    /\ Did(p, "validate")
    /\ Proceed(p, "validate", validate_environment)
    /\ UNCHANGED <<procs, keyboard, entered, confirm, plugin_info, template, dirs,
                   marketplace, loaded, registration, io, initial>>
    /\ UNCHANGED hookVars

\* Lines 41-52: one pass of the name loop.
PromptName(p) ==
    /\ pc[p] = "name"
    /\ \E line \in Typed.name :
          /\ entered' = [entered EXCEPT ![p] = line]
          /\ IF NameAccepted(Strip(line))
             THEN /\ plugin_info' = [plugin_info EXCEPT ![p].name = Strip(line)]
                  /\ Goto(p, "description")
             ELSE UNCHANGED <<plugin_info, pc, ret>>
    /\ UNCHANGED <<procs, keyboard, confirm, steps, template, dirs, marketplace,
                   loaded, registration, io, initial>>
    /\ UNCHANGED hookVars

\* Lines 55-60: one pass of the description loop.
PromptDescription(p) ==
    /\ pc[p] = "description"
    /\ \E line \in Typed.description :
          /\ entered' = [entered EXCEPT ![p] = line]
          /\ IF Strip(line) # <<>>
             THEN /\ plugin_info' =
                        [plugin_info EXCEPT ![p].description = Strip(line)]
                  /\ Goto(p, "author")
             ELSE UNCHANGED <<plugin_info, pc, ret>>
    /\ UNCHANGED <<procs, keyboard, confirm, steps, template, dirs, marketplace,
                   loaded, registration, io, initial>>
    /\ UNCHANGED hookVars

\* Lines 63-68: one pass of the author loop.
PromptAuthor(p) ==
    /\ pc[p] = "author"
    /\ \E line \in Typed.author :
          /\ entered' = [entered EXCEPT ![p] = line]
          /\ IF Strip(line) # <<>>
             THEN /\ plugin_info' = [plugin_info EXCEPT ![p].author = Strip(line)]
                  /\ Goto(p, "version")
             ELSE UNCHANGED <<plugin_info, pc, ret>>
    /\ UNCHANGED <<procs, keyboard, confirm, steps, template, dirs, marketplace,
                   loaded, registration, io, initial>>
    /\ UNCHANGED hookVars

\* Lines 70-80 and 195-200: the version prompt, the return of get_user_input
\* and the summary.
PromptVersion(p) ==
    /\ pc[p] = "version"
    /\ \E line \in Typed.version :
          /\ entered' = [entered EXCEPT ![p] = line]
          /\ plugin_info' = [plugin_info EXCEPT ![p].version = VersionOf(line)]
    /\ Did(p, "input")
    /\ Goto(p, "confirm")
    /\ UNCHANGED <<procs, keyboard, confirm, template, dirs, marketplace, loaded,
                   registration, io, initial>>
    /\ UNCHANGED hookVars

\* Lines 202-210: one pass of the confirmation loop.
Confirm(p) ==
    /\ pc[p] = "confirm"
    /\ \E line \in Typed.yesno :
          /\ entered' = [entered EXCEPT ![p] = line]
          /\ confirm' = [confirm EXCEPT ![p] = Choice(line)]
          /\ IF Choice(line) \in {<<"y">>, <<"n">>}
             THEN Did(p, "confirm") /\ Proceed(p, "confirm", Choice(line) # <<"n">>)
             ELSE UNCHANGED <<steps, pc, ret>>
    /\ UNCHANGED <<procs, keyboard, plugin_info, template, dirs, marketplace,
                   loaded, registration, io, initial>>
    /\ UNCHANGED hookVars

\* Lines 212-215 and 82-95. shutil.copytree makes the target directory with
\* exist_ok=False, so it raises when the directory exists; any other error
\* may strike before or after the directory was made.
CreatePluginDirectory(p) ==
    /\ pc[p] = "copy"
    /\ Did(p, "copy")
    /\ LET name == plugin_info[p].name IN
       IF CopyRaises(name)
       THEN Proceed(p, "copy", FALSE) /\ UNCHANGED <<dirs, io>>
       ELSE \E copy \in {"ok", "fails_early", "fails_late"} :
               IF copy = "ok"
               THEN /\ dirs' = (name :> template.manifest) @@ dirs
                    /\ Io(p, "mkdir")
                    /\ Proceed(p, "copy", TRUE)
               ELSE IF copy = "fails_late"
               THEN /\ dirs' = (name :> BrokenManifest("missing")) @@ dirs
                    /\ Io(p, "mkdir")
                    /\ Proceed(p, "copy", FALSE)
               ELSE Proceed(p, "copy", FALSE) /\ UNCHANGED <<dirs, io>>
    /\ UNCHANGED <<procs, keyboard, entered, confirm, plugin_info, template, marketplace,
                   loaded, registration, initial>>
    /\ UNCHANGED hookVars

\* Lines 217-220 and 97-122. Reading fails on a missing or malformed file,
\* line 112 on a manifest without an author object; open(..., 'w') may fail
\* (file untouched) and json.dump may fail after the file was truncated.
UpdatePluginJson(p) ==
    /\ pc[p] = "update"
    /\ Did(p, "update")
    /\ LET name == plugin_info[p].name
           m == dirs[name] IN
       IF m.kind # "ok"
       THEN Proceed(p, "update", FALSE) /\ UNCHANGED <<dirs, io>>
       ELSE \E write \in {"ok", "open_fails", "dump_fails"} :
               IF write = "ok"
               THEN /\ dirs' = [dirs EXCEPT ![name] =
                                    UpdatedManifest(m, plugin_info[p])]
                    /\ Io(p, "manifest_write")
                    /\ Proceed(p, "update", TRUE)
               ELSE IF write = "dump_fails"
               THEN /\ dirs' = [dirs EXCEPT ![name] = BrokenManifest("malformed")]
                    /\ Io(p, "manifest_write")
                    /\ Proceed(p, "update", FALSE)
               ELSE Proceed(p, "update", FALSE) /\ UNCHANGED <<dirs, io>>
    /\ UNCHANGED <<procs, keyboard, entered, confirm, plugin_info, template, marketplace,
                   loaded, registration, initial>>
    /\ UNCHANGED hookVars

\* Lines 128-136: one pass of the registry prompt.
RegisterPrompt(p) ==
    /\ pc[p] = "register"
    /\ \E line \in Typed.yesno :
          /\ entered' = [entered EXCEPT ![p] = line]
          /\ IF Choice(line) = <<"n">>
             THEN /\ registration' = [registration EXCEPT ![p] = "declined"]
                  /\ Did(p, "register")
                  /\ Proceed(p, "register", TRUE)
             ELSE IF Choice(line) = <<"y">>
             THEN Goto(p, "load") /\ UNCHANGED <<registration, steps>>
             ELSE UNCHANGED <<registration, steps, pc, ret>>
    /\ UNCHANGED <<procs, keyboard, confirm, plugin_info, template, dirs,
                   marketplace, loaded, io, initial>>
    /\ UNCHANGED hookVars

\* Lines 138-147: read marketplace.json and look for the name.
RegisterLoad(p) ==
    /\ pc[p] = "load"
    /\ Io(p, "registry_read")
    /\ IF ~marketplace.exists \/ ~marketplace.valid
       THEN /\ registration' = [registration EXCEPT ![p] = "failed"]
            /\ Did(p, "register")
            /\ Proceed(p, "register", FALSE)
            /\ UNCHANGED loaded
       ELSE LET doc == [has_plugins |-> marketplace.has_plugins,
                        plugins |-> marketplace.plugins] IN
            IF plugin_info[p].name \in ExistingPlugins(doc)
            THEN /\ registration' = [registration EXCEPT ![p] = "duplicate"]
                 /\ Did(p, "register")
                 /\ Proceed(p, "register", TRUE)
                 /\ UNCHANGED loaded
            ELSE /\ loaded' = [loaded EXCEPT ![p] = doc]
                 /\ Goto(p, "dump")
                 /\ UNCHANGED <<registration, steps>>
    /\ UNCHANGED <<procs, keyboard, entered, confirm, plugin_info, template,
                   dirs, marketplace, initial>>
    /\ UNCHANGED hookVars

\* Lines 149-169: append the record and rewrite marketplace.json.
RegisterDump(p) ==
    /\ pc[p] = "dump"
    /\ Did(p, "register")
    /\ \E write \in {"ok", "open_fails", "dump_fails"} :
          IF write = "ok"
          THEN LET doc == WithEntry(loaded[p], NewPluginEntry(plugin_info[p])) IN
               /\ marketplace' = Registry(TRUE, TRUE, doc.has_plugins, doc.plugins)
               /\ registration' = [registration EXCEPT ![p] = "registered"]
               /\ Io(p, "registry_write")
               /\ Proceed(p, "register", TRUE)
          ELSE IF write = "dump_fails"
          THEN /\ marketplace' = Registry(TRUE, FALSE, FALSE, <<>>)
               /\ registration' = [registration EXCEPT ![p] = "failed"]
               /\ Io(p, "registry_write")
               /\ Proceed(p, "register", FALSE)
          ELSE /\ registration' = [registration EXCEPT ![p] = "failed"]
               /\ Proceed(p, "register", FALSE)
               /\ UNCHANGED <<marketplace, io>>
    /\ UNCHANGED <<procs, keyboard, entered, confirm, plugin_info, template, dirs,
                   loaded, initial>>
    /\ UNCHANGED hookVars

\* Lines 225-228: the completion summary and the final return.
PrintSuccess(p) ==
    /\ pc[p] = "summary"
    /\ Did(p, "summary")
    /\ Proceed(p, "summary", TRUE)
    /\ UNCHANGED <<procs, keyboard, entered, confirm, plugin_info, template, dirs,
                   marketplace, loaded, registration, io, initial>>
    /\ UNCHANGED hookVars

ToolNext ==
    \/ \E p \in procs : Validate(p)
    \/ \E p \in procs : PromptName(p)
    \/ \E p \in procs : PromptDescription(p)
    \/ \E p \in procs : PromptAuthor(p)
    \/ \E p \in procs : PromptVersion(p)
    \/ \E p \in procs : Confirm(p)
    \/ \E p \in procs : CreatePluginDirectory(p)
    \/ \E p \in procs : UpdatePluginJson(p)
    \/ \E p \in procs : RegisterPrompt(p)
    \/ \E p \in procs : RegisterLoad(p)
    \/ \E p \in procs : RegisterDump(p)
    \/ \E p \in procs : PrintSuccess(p)

-----------------------------------------------------------------------------
(* Specifications.                                                          *)

\* One run of the hook.
HookStart == HookInit /\ ToolIdle
HookSpec == HookStart /\ [][HookNext]_vars

\* One scaffolder session.
Init == HookIdle /\ ToolInit
Next == ToolNext
Spec == Init /\ [][Next]_vars

\* Two scaffolder sessions at once on one project root.
ConcInit ==
    /\ HookIdle
    /\ template = [exists |-> TRUE, manifest |-> TemplateManifest("ok")]
    /\ dirs = NoDirs
    /\ marketplace = Registry(TRUE, TRUE, TRUE, <<OldAA>>)
    /\ ToolStart(Sessions, "pair")

ConcSpec == ConcInit /\ [][ToolNext]_vars

-----------------------------------------------------------------------------
(* Properties of the hook, checked under HookSpec.                          *)

IsPrefixOf(s, t) == Len(s) <= Len(t) /\ s = SubSeq(t, 1, Len(s))

GateOrder == <<"extension", "exists", "probe">>

\* The input names a string path ending in ".cs" that exists, and the probe
\* finds the toolchain.
GatesPass ==
    /\ stdin.json = "object"
    /\ stdin.tool_input = "object"
    /\ stdin.file_path = "string"
    /\ EndsWith(stdin.path, <<".cs">>)
    /\ path_stat = "exists"
    /\ dotnet

\* C1: the hook never ends with a non-zero exit status, whatever standard
\* input holds and whatever the formatter does; input that is no JSON ends
\* with exactly the invalid-JSON warning.
C1_HookExitsZero ==
    /\ status \in {NoStatus, 0}
    /\ hpc = "done" => status = 0
    /\ (hpc = "done" /\ stdin.json \in {"malformed", "empty"}) =>
           printed = <<InvalidJsonLine>>

C1_Witness ==
    /\ hpc = "done"
    /\ stdin.json = "object" /\ stdin.file_path = "number"
    /\ status = 0
    /\ Len(printed) = 1

\* C2: the formatter is launched at most once, and only after the extension
\* gate, the existence gate and the probe passed in that order; a run in
\* which one of them fails launches nothing and exits 0.
C2_LaunchOnlyAfterGates ==
    /\ launched <= 1
    /\ IsPrefixOf(gates, GateOrder)
    /\ launched = 1 => (GatesPass /\ gates = GateOrder)
    /\ (hpc = "done" /\ ~GatesPass) => (launched = 0 /\ status = 0)

C2_Witness == hpc = "done" /\ launched = 1 /\ status = 0

\* The outcome classes of the formatter call.
MissingSubcommand ==
    /\ outcome.kind = "returned"
    /\ outcome.returncode # 0
    /\ Contains(Lower(Strip(outcome.stderr)), <<"csharpier">>)
    /\ Contains(Lower(Strip(outcome.stderr)), <<"not", " ", "found">>)

ExpectedReport ==
    IF outcome.kind = "returned" /\ outcome.returncode = 0
    THEN Line("stdout", <<Prefix, "Formatted: ">> \o stdin.path)
    ELSE IF MissingSubcommand
    THEN AdvisoryLine
    ELSE IF outcome.kind = "returned"
    THEN Line("stderr", <<Prefix, Warning, "Format failed: ">>
                        \o (IF Strip(outcome.stderr) # <<>>
                            THEN Strip(outcome.stderr) ELSE outcome.stdout))
    ELSE IF outcome.kind = "timeout"
    THEN Line("stderr", <<Prefix, Warning, "Timeout formatting: ">> \o stdin.path)
    ELSE IF outcome.kind = "launch_failure"
    THEN Line("stderr", <<Prefix, Warning, "dotnet", " ", "CLI", " ", "not", " ",
                          "found">>)
    ELSE Line("stderr", <<Prefix, Warning, "Error: ">> \o outcome.stderr)

\* C3: once the formatter was invoked the report follows from the outcome
\* class alone, and the "not installed" advisory is printed for no outcome
\* other than the missing-subcommand one.
C3_ReportByOutcomeClass ==
    (hpc = "done" /\ launched = 1) =>
        /\ printed = <<ExpectedReport>>
        /\ AdvisoryLine = printed[1] => MissingSubcommand

-----------------------------------------------------------------------------
(* Properties of the scaffolder, checked under Spec (one session) and       *)
(* ConcSpec (two sessions).                                                 *)

Last(s) == s[Len(s)]

StepOrder ==
    <<"validate", "input", "confirm", "copy", "update", "register", "summary">>

\* run() of session p has ended, and step was the last one it performed.
EndedAt(p, step) ==
    pc[p] = "done" /\ steps[p] # <<>> /\ Last(steps[p]) = step

RecordNames(plugins) == {plugins[i].name : i \in 1..Len(plugins)}

PairwiseDistinct(plugins) ==
    \A i, j \in 1..Len(plugins) : i # j => plugins[i].name # plugins[j].name

\* The directory of session p exists and its manifest carries the descriptor.
ManifestWritten(p) ==
    /\ plugin_info[p].name \in DOMAIN dirs
    /\ dirs[plugin_info[p].name] =
          Manifest("ok", plugin_info[p].name, plugin_info[p].description,
                   plugin_info[p].version, plugin_info[p].author)

RegistryIo == {"registry_read", "registry_write"}

\* C4: run() returns 1 exactly when validation, the copy or the manifest
\* update failed, and 0 otherwise: on cancellation, and once copy and update
\* succeeded whatever became of the registration.
C4_ReturnValue ==
    \A p \in procs :
        pc[p] = "done" =>
            /\ ret[p] \in {0, 1}
            /\ ret[p] = 1 <=>
                  \/ EndedAt(p, "validate") /\ ~(template.exists /\ marketplace.exists)
                  \/ EndedAt(p, "copy") /\ "manifest_write" \notin io[p]
                  \/ EndedAt(p, "update") /\ ~ManifestWritten(p)
            /\ ret[p] = 0 <=>
                  \/ confirm[p] = <<"n">>
                  \/ /\ ManifestWritten(p)
                     /\ registration[p] \in
                           {"declined", "duplicate", "registered", "failed"}

C4_Witness ==
    pc[1] = "done" /\ ret[1] = 0 /\ registration[1] = "failed"

\* C5: after the answer 'n' at the confirmation the run has ended with 0 and
\* nothing on disk has changed: no directory, no manifest, no registry write,
\* no registry prompt.
C5_CancelLeavesDisk ==
    \A p \in procs :
        confirm[p] = <<"n">> =>
            /\ pc[p] = "done" /\ ret[p] = 0
            /\ dirs = initial.dirs
            /\ marketplace = initial.marketplace
            /\ io[p] = {}
            /\ registration[p] = "none"
            /\ steps[p] = <<"validate", "input", "confirm">>

C5_Witness ==
    /\ pc[1] = "done" /\ confirm[1] = <<"n">> /\ entered[1] = <<"N">>
    /\ plugin_info[1].name = <<"a", "a">>

\* C6: answering 'y' at the registry prompt for a name the registry already
\* lists leaves the registry file as it was; record names that were
\* pairwise distinct before the run are pairwise distinct after it.
C6_DuplicateLeavesRegistry ==
    \A p \in procs :
        /\ ( /\ "registry_read" \in io[p]
             /\ initial.marketplace.valid
             /\ plugin_info[p].name \in RecordNames(initial.marketplace.plugins) )
           => ( /\ marketplace = initial.marketplace
                /\ "registry_write" \notin io[p]
                /\ pc[p] \in {"summary", "done"} )
        /\ PairwiseDistinct(initial.marketplace.plugins)
              => PairwiseDistinct(marketplace.plugins)

C6_Witness ==
    /\ pc[1] = "done" /\ registration[1] = "duplicate"
    /\ plugin_info[1].name = <<"a", "a">>
    /\ marketplace.plugins = <<OldAA, OldA>>

\* The run of session p got through the registry prompt with 'y' for a name
\* the (readable) registry did not list.
RegistryChosen(p) ==
    /\ pc[p] \in {"summary", "done"}
    /\ "registry_read" \in io[p]
    /\ initial.marketplace.valid
    /\ plugin_info[p].name \notin RecordNames(initial.marketplace.plugins)

DescriptorWritten(p) ==
    /\ ManifestWritten(p)
    /\ marketplace.valid /\ marketplace.has_plugins
    /\ marketplace.plugins =
          Append(initial.marketplace.plugins,
                 Entry(plugin_info[p].name, <<"./">> \o plugin_info[p].name,
                       plugin_info[p].description))

\* The version of the descriptor is the stripped line, "1.0.0" for a blank one.
VersionRule(p) ==
    (pc[p] = "confirm" /\ confirm[p] = Unset) =>
        plugin_info[p].version =
            (IF Strip(entered[p]) = <<>> THEN <<"1.0.0">> ELSE Strip(entered[p]))

\* C7 as stated: with confirmation 'y', a successful copy, registry choice
\* 'y' and a name not yet in the registry, the manifest carries the
\* descriptor and the registry is its previous content followed by the one
\* new record.
C7_AsStated ==
    \A p \in procs : VersionRule(p) /\ (RegistryChosen(p) => DescriptorWritten(p))

\* C7 amended: the same, for the runs in which the registry file was also
\* rewritten without error (registration reported as done).
C7_DescriptorWritten ==
    \A p \in procs :
        /\ VersionRule(p)
        /\ (RegistryChosen(p) /\ registration[p] = "registered")
              => DescriptorWritten(p)
        /\ registration[p] = "registered" => RegistryChosen(p)

C7_Witness ==
    /\ pc[1] = "done" /\ registration[1] = "registered"
    /\ plugin_info[1].version = <<"1.0.0">>
    /\ Len(marketplace.plugins) = 2

\* Session p has left the name prompt.
NameChosen(p) ==
    pc[p] \notin {"idle", "validate", "name"} /\ ~EndedAt(p, "validate")

\* C8 as stated: a name that left the name prompt is non-empty and contains
\* no whitespace character.
C8_AsStated ==
    \A p \in procs :
        NameChosen(p) =>
            /\ plugin_info[p].name # <<>>
            /\ \A i \in 1..Len(plugin_info[p].name) :
                  plugin_info[p].name[i] \notin Whitespace

\* C8 amended: a pass of the name prompt accepts the stripped line exactly
\* when it is non-empty, contains no space character and names no existing
\* directory, and repeats the prompt otherwise; a tab inside the name is
\* accepted.
C8_NamePrompt ==
    [][ \A p \in procs :
          pc[p] = "name" =>
            LET name == Strip(entered'[p]) IN
            /\ pc'[p] \in {"name", "description"}
            /\ pc'[p] = "description" <=>
                  /\ name # <<>>
                  /\ \A i \in 1..Len(name) : name[i] # " "
                  /\ name \notin DOMAIN dirs
            /\ pc'[p] = "description" => plugin_info'[p].name = name
            /\ dirs' = dirs ]_vars

C8_Witness ==
    /\ pc[1] = "description"
    /\ plugin_info[1].name = <<"a", "\t", "a">>
    /\ <<"a">> \in DOMAIN dirs

\* C9: the steps of run() happen in the fixed order; the registry prompt,
\* any registry access and the completion summary occur only after copy and
\* manifest update both succeeded; a failed copy ends the run at once, a
\* failed update leaves the directory in place and the registry untouched,
\* and both return 1.
C9_StepOrder ==
    \A p \in procs :
        /\ IsPrefixOf(steps[p], StepOrder)
        /\ ( \/ pc[p] \in {"register", "load", "dump", "summary"}
             \/ io[p] \cap RegistryIo # {}
             \/ registration[p] # "none"
             \/ EndedAt(p, "summary") )
           => ( /\ ManifestWritten(p)
                /\ {"mkdir", "manifest_write"} \subseteq io[p] )
        /\ (pc[p] = "update" \/ "manifest_write" \in io[p]) => "mkdir" \in io[p]
        /\ EndedAt(p, "copy") =>
              /\ ret[p] = 1
              /\ io[p] \subseteq {"mkdir"}
              /\ marketplace = initial.marketplace
        /\ EndedAt(p, "update") =>
              /\ ret[p] = 1
              /\ plugin_info[p].name \in DOMAIN dirs
              /\ ~ManifestWritten(p)
              /\ io[p] \cap RegistryIo = {}
              /\ marketplace = initial.marketplace

C9_Witness ==
    /\ EndedAt(1, "update") /\ ret[1] = 1
    /\ "manifest_write" \in io[1]
    /\ dirs[plugin_info[1].name].kind = "malformed"

\* C10: of the sessions that accepted one name at most one creates the
\* directory; a session whose copy fails returns 1 and has written neither
\* a manifest nor the registry, so the manifest of the directory is the
\* template's or the creating session's.
C10_OneCopyPerName ==
    \A p, q \in procs :
        /\ (p # q /\ "mkdir" \in io[p] /\ "mkdir" \in io[q])
              => plugin_info[p].name # plugin_info[q].name
        /\ EndedAt(p, "copy") =>
              /\ ret[p] = 1
              /\ io[p] \subseteq {"mkdir"}
        /\ ( /\ "manifest_write" \in io[p]
             /\ plugin_info[p].name = plugin_info[q].name )
           => dirs[plugin_info[p].name].description \in
                 {plugin_info[p].description, <<>>}

C10_Witness ==
    /\ plugin_info[1].name = plugin_info[2].name
    /\ plugin_info[1].description # plugin_info[2].description
    /\ EndedAt(1, "copy") /\ io[1] = {} /\ ret[1] = 1
    /\ pc[2] = "done" /\ ret[2] = 0 /\ registration[2] = "registered"

=============================================================================
